---- MODULE Spec2Model ----
(***************************************************************************)
(* A model of kaas.py, the Kodi artist artwork scraper.                    *)
(*                                                                         *)
(* KodiArtistArtworkScraper.scrape() lists the library root, keeps the     *)
(* visible directories that hold no entry named like the artwork file, and *)
(* for each of them asks TheAudioDB for the artist, downloads the          *)
(* thumbnail of a unique match and writes it into the artist's directory.  *)
(*                                                                         *)
(* The filesystem and the HTTP service are the environment: every answer   *)
(* they can give (listing order, transport errors, status codes, response  *)
(* bodies, write errors) is a nondeterministic choice of the action that   *)
(* receives it.                                                            *)
(***************************************************************************)
EXTENDS Integers, Sequences, FiniteSets, TLC

(***************************************************************************)
(* Bounds of the model.                                                    *)
(***************************************************************************)
\* entries in the library root
MaxEntries == 2
\* records in the 'artists' list of a search response
MaxRecords == 2

(***************************************************************************)
(* Names and file contents.                                                *)
(***************************************************************************)
\* the default of --artwork-file
ArtworkFile == "artist.jpg"

\* an unrelated file an artist directory may hold
OtherFile == "cover.png"

FileNames == {ArtworkFile, OtherFile}

\* the names an entry of the library root can have, as sequences of
\* characters: ".h", "a", "b" and "b."
Names == {<<".", "h">>, <<"a">>, <<"b">>, <<"b", ".">>}

\* the bytes of a file that was there before the run
OldBytes == <<9>>

\* the bodies a thumbnail response can carry
Bodies == {<<1>>, <<2, 3>>}

\* the URL a record can name as its thumbnail
Urls == {"http://img/x.jpg"}

(***************************************************************************)
(* JSON values, as response.json() returns them.                           *)
(***************************************************************************)
JNull == [t |-> "null"]

JStr(s) == [t |-> "str", s |-> s]

JList(l) == [t |-> "list", l |-> l]

JObj(o) == [t |-> "obj", o |-> o]

\* a response body that is not JSON
Garbage == [t |-> "garbage"]

\* Python truthiness of a JSON value: None, '', [] and {} are false
Truthy(j) ==
    CASE j.t = "null" -> FALSE
      [] j.t = "str" -> j.s # ""
      [] j.t = "list" -> Len(j.l) # 0
      [] j.t = "obj" -> DOMAIN j.o # {}
      [] OTHER -> TRUE

\* the values of the field 'strArtistThumb'; the API sends a URL, "" or null
ThumbValues == {JNull, JStr("")} \cup {JStr(u) : u \in Urls}

\* artist records: with the thumbnail field, or without it
Records ==
    {JObj([strArtistThumb |-> v]) : v \in ThumbValues}
        \cup {JObj([idArtist |-> JStr("111239")])}

SeqsUpTo(S, n) == UNION {[1..k -> S] : k \in 0..n}

\* the bodies of a search response
SearchBodies ==
    {Garbage}
        \cup {JList(<<>>)}
        \cup {JObj([error |-> JStr("x")])}
        \cup {JObj([artists |-> JNull])}
        \cup {JObj([artists |-> JList(l)]) : l \in SeqsUpTo(Records, MaxRecords)}

StatusCodes == {200, 404}

\* transport failures that leave no response
TransportErrors == {"ConnectionError", "Timeout"}

\* what a search request can come back with
SearchResponses ==
    {[net |-> e] : e \in TransportErrors}
        \cup {[status |-> 200, body |-> b] : b \in SearchBodies}
        \cup {[status |-> 404, body |-> Garbage]}

\* what a thumbnail request can come back with
ThumbResponses ==
    {[net |-> e] : e \in TransportErrors}
        \cup {[status |-> s, body |-> b] : s \in StatusCodes, b \in Bodies}

NoResponse == [none |-> TRUE]

IsResponse(r) == "status" \in DOMAIN r

IsTransportError(r) == "net" \in DOMAIN r

(***************************************************************************)
(* The filesystem below the library root.                                  *)
(***************************************************************************)
\* what an artist directory can hold before the run
DirContents == UNION {[D -> {OldBytes}] : D \in SUBSET FileNames}

Nodes ==
    {[kind |-> "file", files |-> <<>>]}
        \cup {[kind |-> "dir", files |-> f] : f \in DirContents}

Trees ==
    UNION {[S -> Nodes] : S \in {T \in SUBSET Names : Cardinality(T) <= MaxEntries}}

VARIABLES
    rootKind,   \* what library_root is: "dir", "file" or "missing"
    tree,       \* the entries of the library root: name -> node
    tree0,      \* the tree at the start of the run
    pc,         \* position of scrape()
    artists,    \* the list _collect_artists returned
    i,          \* index into artists of the iteration of the for loop
    resp,       \* the response to the search request of this iteration
    thumbUrl,   \* the URL of the thumbnail request of this iteration
    thumbResp,  \* the response to the thumbnail request of this iteration
    image,      \* the value _fetch_artwork returned
    state,      \* candidate -> Discovered, Resolving, Saved or Skipped
    reason,     \* candidate -> the reason it was skipped for
    searchReqs, \* name -> number of search requests issued for it
    thumbReqs,  \* name -> number of thumbnail requests issued for it
    writes,     \* name -> number of times its artwork file was opened for writing
    crash,      \* the exception that left scrape(), or "none"
    run,        \* which invocation of the program this is: 1 or 2
    prev        \* what the invocation before this one did

vars ==
    <<rootKind, tree, tree0, pc, artists, i, resp, thumbUrl, thumbResp, image,
      state, reason, searchReqs, thumbReqs, writes, crash, run, prev>>

(***************************************************************************)
(* _collect_artists                                                        *)
(***************************************************************************)
\* os.listdir returns the names of a directory in arbitrary order
Listings(S) ==
    {l \in [1..Cardinality(S) -> S] : \A m, n \in DOMAIN l : m # n => l[m] # l[n]}

\* os.path.isdir(self._artist_dir(node))
IsDir(node) == node \in DOMAIN tree /\ tree[node].kind = "dir"

\* node.startswith('.')
StartsWithDot(node) == Len(node) >= 1 /\ node[1] = "."

\* os.listdir(self._artist_dir(artist))
ListDir(artist) == DOMAIN tree[artist].files

ArtistDirsNoHiddenCheck(listing) ==
    SelectSeq(listing, LAMBDA node : IsDir(node))

\* the first comprehension: visible directories, in listing order
ArtistDirs(listing) ==
    SelectSeq(listing, LAMBDA node : IsDir(node) /\ ~StartsWithDot(node))

NoArtworkNoCheck(artist_dirs) == artist_dirs

\* the second comprehension: directories with no entry named like the artwork
NoArtwork(artist_dirs) ==
    SelectSeq(artist_dirs, LAMBDA artist : ArtworkFile \notin ListDir(artist))

(***************************************************************************)
(* _fetch_artwork                                                          *)
(***************************************************************************)
Raise(exc, msg) == [kind |-> "raise", exc |-> exc, msg |-> msg]

Get(url) == [kind |-> "get", url |-> url]

\* response.raise_for_status() raises HTTPError for 4xx and 5xx
RaisesForStatus(status) == status >= 400 /\ status < 600

ThumbKey == "strArtistThumb"

ClassifyNoEmptyCheck(matches) ==
    IF matches.t # "list"
    THEN Raise("TypeError", "object of type 'NoneType' has no len()")
    ELSE IF Len(matches.l) # 1
    THEN Raise("ScrapingError", "matches for")
    ELSE IF ThumbKey \notin DOMAIN matches.l[1].o
    THEN Raise("KeyError", ThumbKey)
    ELSE IF ~Truthy(matches.l[1].o[ThumbKey])
    THEN Raise("ScrapingError", "No artwork for")
    ELSE Get(matches.l[1].o[ThumbKey].s)

ClassifyFirstOfMany(matches) ==
    IF ~Truthy(matches)
    THEN Raise("ScrapingError", "No match for")
    ELSE IF ThumbKey \notin DOMAIN matches.l[1].o
    THEN Raise("KeyError", ThumbKey)
    ELSE IF ~Truthy(matches.l[1].o[ThumbKey])
    THEN Raise("ScrapingError", "No artwork for")
    ELSE Get(matches.l[1].o[ThumbKey].s)

\* the if/elif chain over matches
Classify(matches) ==
    IF ~Truthy(matches)
    THEN Raise("ScrapingError", "No match for")
    ELSE IF Len(matches.l) # 1
    THEN Raise("ScrapingError", "matches for")
    ELSE IF ThumbKey \notin DOMAIN matches.l[1].o
    THEN Raise("KeyError", ThumbKey)
    ELSE IF ~Truthy(matches.l[1].o[ThumbKey])
    THEN Raise("ScrapingError", "No artwork for")
    ELSE Get(matches.l[1].o[ThumbKey].s)

\* what response.json() raises for a body that is not JSON: a subclass of
\* RequestException since requests 2.27, a plain ValueError before
JsonErrors == {"JSONDecodeError", "ValueError"}

\* _fetch_artwork from the return of the search request to the raise or to
\* the thumbnail request
AfterSearch(r, jsonError) ==
    IF IsTransportError(r)
    THEN Raise(r.net, "")
    ELSE IF RaisesForStatus(r.status)
    THEN Raise("HTTPError", "")
    ELSE IF r.body.t = "garbage"
    THEN Raise(jsonError, "")
    ELSE IF r.body.t # "obj"
    THEN Raise("TypeError", "list indices must be integers")
    ELSE IF "artists" \notin DOMAIN r.body.o
    THEN Raise("KeyError", "artists")
    ELSE Classify(r.body.o.artists)

\* self._http.get(url).content: the body, whatever the status
AfterThumb(r) ==
    IF IsTransportError(r)
    THEN Raise(r.net, "")
    ELSE [kind |-> "return", content |-> r.body]

(***************************************************************************)
(* The except clauses of scrape()                                          *)
(***************************************************************************)
\* the subclasses of requests.exceptions.RequestException
RequestExceptions == {"HTTPError", "ConnectionError", "Timeout", "JSONDecodeError"}

Caught(exc) == exc = "ScrapingError" \/ exc \in RequestExceptions

\* the outcome the log line of a caught exception stands for
ReasonOf(out) ==
    IF out.exc = "ScrapingError"
    THEN CASE out.msg = "No match for" -> "no-match"
           [] out.msg = "matches for" -> "ambiguous-match"
           [] out.msg = "No artwork for" -> "no-thumbnail-available"
    ELSE "network-error"

(***************************************************************************)
(* _save_image                                                             *)
(***************************************************************************)
ImageFileOther(artist) == <<artist, OtherFile>>

\* self._artist_dir(artist, self._artwork_file)
ImageFile(artist) == <<artist, ArtworkFile>>

\* the directory f with the file k holding v
Put(f, k, v) == [x \in DOMAIN f \cup {k} |-> IF x = k THEN v ELSE f[x]]

WriteFileClobber(t, path, data) ==
    [t EXCEPT ![path[1]].files = [x \in {path[2]} |-> data]]

\* open(path, 'wb') followed by file.write(data)
WriteFile(t, path, data) ==
    [t EXCEPT ![path[1]].files = Put(@, path[2], data)]

\* the strict prefixes of data: what a failed write can leave in the file
StrictPrefixes(data) == {SubSeq(data, 1, k) : k \in 0..(Len(data) - 1)}

(***************************************************************************)
(* scrape()                                                                *)
(***************************************************************************)
Zero == [n \in Names |-> 0]

\* no invocation before this one
NoRun ==
    [artists |-> <<>>,
     state |-> [n \in Names |-> "none"],
     reason |-> [n \in Names |-> "none"],
     thumbReqs |-> Zero,
     crash |-> "none"]

Init ==
    /\ rootKind \in {"dir", "file", "missing"}
    /\ tree \in (IF rootKind = "dir" THEN Trees ELSE {<<>>})
    /\ tree0 = tree
    /\ pc = "start"
    /\ artists = <<>>
    /\ i = 1
    /\ resp = NoResponse
    /\ thumbUrl = ""
    /\ thumbResp = NoResponse
    /\ image = <<>>
    /\ state = [n \in Names |-> "none"]
    /\ reason = [n \in Names |-> "none"]
    /\ searchReqs = Zero
    /\ thumbReqs = Zero
    /\ writes = Zero
    /\ crash = "none"
    /\ run = 1
    /\ prev = NoRun

\* the artist of the iteration under way
Cur == artists[i]

InSeq(x, seq) == \E k \in DOMAIN seq : seq[k] = x

IndexOf(x, seq) == CHOOSE k \in DOMAIN seq : seq[k] = x

(***************************************************************************)
(* A second invocation meets the environment of the first: the library     *)
(* root is listed in the same order, the service gives an artist it was    *)
(* asked about the answers it gave, and a file that could not be opened    *)
(* for writing still cannot.                                               *)
(***************************************************************************)
\* the invocation before this one called _fetch_artwork for the artist
Asked(a) == prev.state[a] \in {"Resolving", "Skipped", "Saved"}

\* the candidates come in the order the invocation before had them in
SameOrder(found) ==
    \A m, n \in DOMAIN found :
        (m < n /\ InSeq(found[m], prev.artists) /\ InSeq(found[n], prev.artists))
            => IndexOf(found[m], prev.artists) < IndexOf(found[n], prev.artists)

\* the search for the artist has the outcome it had before
SearchAsBefore(a, out) ==
    \/ ~Asked(a)
    \/ IF prev.thumbReqs[a] = 1
       THEN out.kind = "get"
       ELSE /\ out.kind = "raise"
            /\ IF prev.state[a] = "Skipped"
               THEN Caught(out.exc) /\ ReasonOf(out) = prev.reason[a]
               ELSE ~Caught(out.exc) /\ out.exc = prev.crash

\* the thumbnail request for the artist has the outcome it had before
ThumbAsBefore(a, out) ==
    \/ ~Asked(a)
    \/ IF prev.state[a] = "Skipped" THEN out.kind = "raise" ELSE out.kind = "return"

\* the artwork file of the artist can be opened for writing: an artist that
\* comes to _save_image a second time is one whose file could not be opened
CanOpen(a) == ~Asked(a)

SkipAndRetry(out) ==
    /\ state' = [state EXCEPT ![Cur] = "Skipped"]
    /\ reason' = [reason EXCEPT ![Cur] = ReasonOf(out)]
    /\ i' = i
    /\ pc' = "loop"
    /\ crash' = crash

\* the except clause taken for a caught exception, and the next iteration
Skip(out) ==
    /\ state' = [state EXCEPT ![Cur] = "Skipped"]
    /\ reason' = [reason EXCEPT ![Cur] = ReasonOf(out)]
    /\ i' = i + 1
    /\ pc' = "loop"
    /\ crash' = crash

\* an exception no except clause names leaves scrape()
Propagate(out) ==
    /\ crash' = out.exc
    /\ pc' = "crashed"
    /\ UNCHANGED <<state, reason, i>>

CollectFailsAsEmpty ==
    /\ pc = "start"
    /\ rootKind # "dir"
    /\ pc' = "loop"
    /\ UNCHANGED <<run, prev, rootKind, tree, tree0, artists, i, resp, thumbUrl, thumbResp,
                   image, state, reason, searchReqs, thumbReqs, writes, crash>>

\* os.listdir(self._library_dir) raises: the root is missing or no directory
CollectFails ==
    /\ pc = "start"
    /\ rootKind # "dir"
    /\ crash' = (IF rootKind = "missing" THEN "FileNotFoundError" ELSE "NotADirectoryError")
    /\ pc' = "crashed"
    /\ UNCHANGED <<run, prev, rootKind, tree, tree0, artists, i, resp, thumbUrl, thumbResp,
                   image, state, reason, searchReqs, thumbReqs, writes>>

\* artists = self._collect_artists()
Collect ==
    /\ pc = "start"
    /\ rootKind = "dir"
    /\ \E listing \in Listings(DOMAIN tree) :
           /\ SameOrder(NoArtwork(ArtistDirs(listing)))
           /\ artists' = NoArtwork(ArtistDirs(listing))
           /\ state' = [n \in Names |->
                           IF InSeq(n, NoArtwork(ArtistDirs(listing)))
                           THEN "Discovered" ELSE state[n]]
    /\ pc' = "loop"
    /\ UNCHANGED <<run, prev, rootKind, tree, tree0, i, resp, thumbUrl, thumbResp, image,
                   reason, searchReqs, thumbReqs, writes, crash>>

\* the for loop takes the next artist; _fetch_artwork sends the search request
SendSearch ==
    /\ pc = "loop"
    /\ i <= Len(artists)
    /\ state' = [state EXCEPT ![Cur] = "Resolving"]
    /\ searchReqs' = [searchReqs EXCEPT ![Cur] = @ + 1]
    /\ resp' = NoResponse
    /\ thumbUrl' = ""
    /\ thumbResp' = NoResponse
    /\ image' = <<>>
    /\ pc' = "searching"
    /\ UNCHANGED <<run, prev, rootKind, tree, tree0, artists, i, reason, thumbReqs, writes, crash>>

\* the search request comes back and _fetch_artwork raises what an except
\* clause of scrape() catches
SearchSkips ==
    /\ pc = "searching"
    /\ \E r \in SearchResponses, je \in JsonErrors :
           LET out == AfterSearch(r, je) IN
           /\ out.kind = "raise"
           /\ Caught(out.exc)
           /\ SearchAsBefore(Cur, out)
           /\ resp' = r
           /\ Skip(out)
    /\ UNCHANGED <<run, prev, rootKind, tree, tree0, artists, thumbUrl, thumbResp, image,
                   searchReqs, thumbReqs, writes>>

\* the search request comes back and _fetch_artwork raises what no except
\* clause of scrape() catches
SearchCrashes ==
    /\ pc = "searching"
    /\ \E r \in SearchResponses, je \in JsonErrors :
           LET out == AfterSearch(r, je) IN
           /\ out.kind = "raise"
           /\ ~Caught(out.exc)
           /\ SearchAsBefore(Cur, out)
           /\ resp' = r
           /\ Propagate(out)
    /\ UNCHANGED <<run, prev, rootKind, tree, tree0, artists, thumbUrl, thumbResp, image,
                   searchReqs, thumbReqs, writes>>

SendThumbNoWait ==
    /\ pc = "searching"
    /\ \E r \in SearchResponses, je \in JsonErrors :
           LET out == AfterSearch(r, je) IN
           /\ out.kind = "get"
           /\ resp' = r
           /\ thumbUrl' = out.url
    /\ thumbReqs' = [thumbReqs EXCEPT ![Cur] = @ + 1]
    /\ i' = i + 1
    /\ pc' = "loop"
    /\ UNCHANGED <<run, prev, rootKind, tree, tree0, artists, thumbResp, image, state,
                   reason, searchReqs, writes, crash>>

\* the search request comes back with a unique match that has a thumbnail:
\* _fetch_artwork sends the thumbnail request
SendThumb ==
    /\ pc = "searching"
    /\ \E r \in SearchResponses, je \in JsonErrors :
           LET out == AfterSearch(r, je) IN
           /\ out.kind = "get"
           /\ SearchAsBefore(Cur, out)
           /\ resp' = r
           /\ thumbUrl' = out.url
    /\ thumbReqs' = [thumbReqs EXCEPT ![Cur] = @ + 1]
    /\ pc' = "fetching"
    /\ UNCHANGED <<run, prev, rootKind, tree, tree0, artists, i, thumbResp, image, state,
                   reason, searchReqs, writes, crash>>

\* the thumbnail request fails in transport: a RequestException, caught
ThumbSkips ==
    /\ pc = "fetching"
    /\ \E r \in ThumbResponses :
           LET out == AfterThumb(r) IN
           /\ out.kind = "raise"
           /\ ThumbAsBefore(Cur, out)
           /\ thumbResp' = r
           /\ Caught(out.exc)
           /\ Skip(out)
    /\ UNCHANGED <<run, prev, rootKind, tree, tree0, artists, resp, thumbUrl, image,
                   searchReqs, thumbReqs, writes>>

\* the thumbnail request comes back: _fetch_artwork returns its content
ThumbReturns ==
    /\ pc = "fetching"
    /\ \E r \in ThumbResponses :
           LET out == AfterThumb(r) IN
           /\ out.kind = "return"
           /\ ThumbAsBefore(Cur, out)
           /\ thumbResp' = r
           /\ image' = out.content
    /\ pc' = "saving"
    /\ UNCHANGED <<run, prev, rootKind, tree, tree0, artists, i, resp, thumbUrl, state,
                   reason, searchReqs, thumbReqs, writes, crash>>

\* self._save_image(artist, image) writes the file; the next iteration
SaveImage ==
    /\ pc = "saving"
    /\ CanOpen(Cur)
    /\ tree' = WriteFile(tree, ImageFile(Cur), image)
    /\ writes' = [writes EXCEPT ![Cur] = @ + 1]
    /\ state' = [state EXCEPT ![Cur] = "Saved"]
    /\ i' = i + 1
    /\ pc' = "loop"
    /\ UNCHANGED <<run, prev, rootKind, tree0, artists, resp, thumbUrl, thumbResp, image,
                   reason, searchReqs, thumbReqs, crash>>

\* open(image_file, 'wb') raises OSError (permission denied, path too long):
\* nothing is written and the exception leaves scrape()
SaveOpenFails ==
    /\ pc = "saving"
    /\ crash' = "OSError"
    /\ pc' = "crashed"
    /\ UNCHANGED <<run, prev, rootKind, tree, tree0, artists, i, resp, thumbUrl, thumbResp,
                   image, state, reason, searchReqs, thumbReqs, writes>>

\* file.write(data) raises OSError (disk full): the file holds a part of the
\* data and the exception leaves scrape()
SaveWriteFails ==
    /\ pc = "saving"
    /\ CanOpen(Cur)
    /\ \E part \in StrictPrefixes(image) :
           tree' = WriteFile(tree, ImageFile(Cur), part)
    /\ writes' = [writes EXCEPT ![Cur] = @ + 1]
    /\ crash' = "OSError"
    /\ pc' = "crashed"
    /\ UNCHANGED <<run, prev, rootKind, tree0, artists, i, resp, thumbUrl, thumbResp,
                   image, state, reason, searchReqs, thumbReqs>>

\* the for loop is exhausted: scrape() returns
Finish ==
    /\ pc = "loop"
    /\ i > Len(artists)
    /\ pc' = "done"
    /\ UNCHANGED <<run, prev, rootKind, tree, tree0, artists, i, resp, thumbUrl, thumbResp,
                   image, state, reason, searchReqs, thumbReqs, writes, crash>>

Next ==
    \/ CollectFails
    \/ Collect
    \/ SendSearch
    \/ SearchSkips
    \/ SearchCrashes
    \/ SendThumb
    \/ ThumbSkips
    \/ ThumbReturns
    \/ SaveImage
    \/ SaveOpenFails
    \/ SaveWriteFails
    \/ Finish

Spec == Init /\ [][Next]_vars

(***************************************************************************)
(* The program run twice in a row                                          *)
(***************************************************************************)
\* _main() is called again once scrape() has returned or raised: a new
\* scraper on the library as the first invocation left it
Rerun ==
    /\ run = 1
    /\ pc \in {"done", "crashed"}
    /\ run' = 2
    /\ prev' = [artists |-> artists,
                state |-> state,
                reason |-> reason,
                thumbReqs |-> thumbReqs,
                crash |-> crash]
    /\ tree0' = tree
    /\ pc' = "start"
    /\ artists' = <<>>
    /\ i' = 1
    /\ resp' = NoResponse
    /\ thumbUrl' = ""
    /\ thumbResp' = NoResponse
    /\ image' = <<>>
    /\ state' = [n \in Names |-> "none"]
    /\ reason' = [n \in Names |-> "none"]
    /\ searchReqs' = Zero
    /\ thumbReqs' = Zero
    /\ writes' = Zero
    /\ crash' = "none"
    /\ UNCHANGED <<rootKind, tree>>

NextTwice ==
    \/ Next
    \/ Rerun

TwoRunSpec == Init /\ [][NextTwice]_vars

(***************************************************************************)
(* The loop of scrape() over one artist directory of any content: what     *)
(* _fetch_artwork and _save_image do for an artist name, whether or not    *)
(* the directory holds artwork already.                                    *)
(***************************************************************************)
DirsOf(t) == {n \in DOMAIN t : t[n].kind = "dir"}

InitAnyArtist ==
    /\ rootKind = "dir"
    /\ tree \in Trees
    /\ tree0 = tree
    /\ pc = "loop"
    /\ artists \in {<<n>> : n \in DirsOf(tree)}
    /\ i = 1
    /\ resp = NoResponse
    /\ thumbUrl = ""
    /\ thumbResp = NoResponse
    /\ image = <<>>
    /\ state = [n \in Names |-> IF InSeq(n, artists) THEN "Discovered" ELSE "none"]
    /\ reason = [n \in Names |-> "none"]
    /\ searchReqs = Zero
    /\ thumbReqs = Zero
    /\ writes = Zero
    /\ crash = "none"
    /\ run = 1
    /\ prev = NoRun

NextInLoop ==
    \/ SendSearch
    \/ SearchSkips
    \/ SearchCrashes
    \/ SendThumb
    \/ ThumbSkips
    \/ ThumbReturns
    \/ SaveImage
    \/ SaveOpenFails
    \/ SaveWriteFails
    \/ Finish

LoopSpec == InitAnyArtist /\ [][NextInLoop]_vars

(***************************************************************************)
(* Types                                                                   *)
(***************************************************************************)
TypeOK ==
    /\ rootKind \in {"dir", "file", "missing"}
    /\ pc \in {"start", "loop", "searching", "fetching", "saving", "done", "crashed"}
    /\ i \in 1..(Len(artists) + 1)
    /\ \A n \in Names : state[n] \in {"none", "Discovered", "Resolving", "Saved", "Skipped"}
    /\ thumbUrl \in Urls \cup {""}
    /\ image \in Bodies \cup {<<>>}
    /\ run \in {1, 2}

(***************************************************************************)
(* Vocabulary of the properties                                            *)
(***************************************************************************)
\* the search request of some iteration has come back
Answered == resp # NoResponse

\* the artist resp, thumbUrl and thumbResp belong to: the one of the
\* iteration under way or, between two iterations, of the one just over
Subject == IF pc \in {"loop", "done"} THEN artists[i - 1] ELSE artists[i]

\* the directory held an entry named like the artwork file before the run
HadArtwork(n) ==
    n \in DOMAIN tree0 /\ tree0[n].kind = "dir" /\ ArtworkFile \in DOMAIN tree0[n].files

\* nothing below the entry has changed since the start of the run
Untouched(n) == n \in DOMAIN tree0 => (n \in DOMAIN tree /\ tree[n] = tree0[n])

\* a request failed in transport: no response, or a status outside 2xx
TransportFailure(r) ==
    \/ IsTransportError(r)
    \/ IsResponse(r) /\ (r.status < 200 \/ r.status >= 300)

\* a 2xx response whose body is a JSON object with the key 'artists'
HasArtists(r) ==
    /\ IsResponse(r)
    /\ ~TransportFailure(r)
    /\ r.body.t = "obj"
    /\ "artists" \in DOMAIN r.body.o

\* the number of records of such a response; a null list has none
RecordCount(r) ==
    IF r.body.o.artists.t = "list" THEN Len(r.body.o.artists.l) ELSE 0

\* the only record of a response that has one
OnlyRecord(r) == r.body.o.artists.l[1].o

OneRecord(r) == HasArtists(r) /\ RecordCount(r) = 1

\* the thumbnail field of the only record is "", null or missing
NoThumb(r) ==
    \/ ThumbKey \notin DOMAIN OnlyRecord(r)
    \/ OnlyRecord(r)[ThumbKey] \in {JNull, JStr("")}

\* the iteration of the subject ended in an except clause, for this reason
SkippedFor(why) ==
    /\ pc \in {"loop", "done"}
    /\ state[Subject] = "Skipped"
    /\ reason[Subject] = why

Terminal == {"Saved", "Skipped"}

(***************************************************************************)
(* C1                                                                      *)
(***************************************************************************)
\* C1: the artwork file of an artist is written at most once in a run, and
\* a directory that held an entry named like the artwork file when the
\* candidates were collected is never searched for, never has a thumbnail
\* fetched and is never written to.
C1_OneWriteAndNoRequery ==
    /\ \A n \in Names : writes[n] <= 1
    /\ \A n \in Names :
           HadArtwork(n) =>
               /\ searchReqs[n] = 0
               /\ thumbReqs[n] = 0
               /\ writes[n] = 0
               /\ state[n] = "none"
               /\ Untouched(n)

\* scenario A of the specification: one artist saved, one with artwork
C1_Witness ==
    /\ pc = "done"
    /\ \E x, y \in Names :
           /\ state[x] = "Saved"
           /\ writes[x] = 1
           /\ HadArtwork(y)
           /\ searchReqs[y] = 0

(***************************************************************************)
(* C2                                                                      *)
(***************************************************************************)
\* C2: a transport failure (connection error, timeout, status outside 2xx)
\* of the search request or of the thumbnail request makes the artist
\* skipped as network-error, writes nothing under its directory and lets
\* the loop go on.
C2_TransportFailureSkips ==
    (Answered /\ (TransportFailure(resp) \/ TransportFailure(thumbResp))) =>
        /\ SkippedFor("network-error")
        /\ writes[Subject] = 0
        /\ Untouched(Subject)

(***************************************************************************)
(* C3                                                                      *)
(***************************************************************************)
\* C3: exactly one record whose thumbnail field is "", null or missing
\* makes the artist skipped as no-thumbnail-available: no thumbnail
\* request, no write, and the loop goes on.
C3_NoThumbnailSkips ==
    (Answered /\ OneRecord(resp) /\ NoThumb(resp)) =>
        /\ SkippedFor("no-thumbnail-available")
        /\ thumbReqs[Subject] = 0
        /\ writes[Subject] = 0
        /\ Untouched(Subject)

(***************************************************************************)
(* C4                                                                      *)
(***************************************************************************)
\* the body of a 2xx response is not JSON, or a JSON object without the
\* key 'artists'
Malformed(r) ==
    /\ IsResponse(r)
    /\ ~TransportFailure(r)
    /\ \/ r.body.t = "garbage"
       \/ r.body.t = "obj" /\ "artists" \notin DOMAIN r.body.o

\* C4: a search response whose body is not JSON or lacks the key 'artists'
\* makes the artist skipped: no write, and the run is not aborted.
C4_MalformedResponseSkips ==
    (Answered /\ Malformed(resp)) =>
        /\ pc \in {"loop", "done"}
        /\ state[Subject] = "Skipped"
        /\ writes[Subject] = 0
        /\ Untouched(Subject)

(***************************************************************************)
(* C5                                                                      *)
(***************************************************************************)
\* C5: whatever happens to the write of the artwork file of one artist,
\* the run is not aborted: the step that leaves _save_image leads to the
\* next iteration of the loop.
C5_WriteErrorDoesNotAbort ==
    [][pc = "saving" => (pc' = "loop" /\ i' = i + 1 /\ crash' = "none")]_vars

(***************************************************************************)
(* C6                                                                      *)
(***************************************************************************)
\* C6: a run that started with a valid library root ends with every
\* collected candidate in a terminal state, Saved or Skipped.
C6_AllProcessedAtTheEnd ==
    (rootKind = "dir" /\ pc \in {"done", "crashed"}) =>
        \A k \in DOMAIN artists : state[artists[k]] \in Terminal

(***************************************************************************)
(* C7                                                                      *)
(***************************************************************************)
\* C7: an empty or null artist list makes the artist skipped as no-match:
\* no thumbnail request is sent and nothing is written for it.
C7_EmptyListIsNoMatch ==
    (Answered /\ HasArtists(resp) /\ RecordCount(resp) = 0) =>
        /\ SkippedFor("no-match")
        /\ thumbReqs[Subject] = 0
        /\ thumbResp = NoResponse
        /\ writes[Subject] = 0
        /\ Untouched(Subject)

\* the service answered {"artists": null}
C7_Witness ==
    /\ Answered
    /\ HasArtists(resp)
    /\ resp.body.o.artists = JNull
    /\ SkippedFor("no-match")

(***************************************************************************)
(* C8                                                                      *)
(***************************************************************************)
\* C8: two or more records make the artist skipped as ambiguous-match,
\* whatever the records hold: no thumbnail request is sent and nothing is
\* written for it.
C8_ManyRecordsIsAmbiguous ==
    (Answered /\ HasArtists(resp) /\ RecordCount(resp) >= 2) =>
        /\ SkippedFor("ambiguous-match")
        /\ thumbReqs[Subject] = 0
        /\ thumbResp = NoResponse
        /\ writes[Subject] = 0
        /\ Untouched(Subject)

\* two records, the first of them with a thumbnail URL
C8_Witness ==
    /\ Answered
    /\ HasArtists(resp)
    /\ RecordCount(resp) >= 2
    /\ ThumbKey \in DOMAIN OnlyRecord(resp)
    /\ Truthy(OnlyRecord(resp)[ThumbKey])
    /\ SkippedFor("ambiguous-match")

(***************************************************************************)
(* C9                                                                      *)
(***************************************************************************)
\* C9: exactly one record with a non-empty thumbnail URL makes the
\* resolver send exactly one more request, to that URL; the body of the
\* response to it is what the artwork file of the artist holds once the
\* artist is saved, in place of what the file held before, and nothing
\* else below the artist's directory changes.
C9_SingleMatchIsSaved ==
    (Answered /\ OneRecord(resp) /\ ~NoThumb(resp)) =>
        /\ thumbReqs[Subject] = 1
        /\ thumbUrl = OnlyRecord(resp)[ThumbKey].s
        /\ (pc \in {"loop", "done"} /\ IsResponse(thumbResp)) =>
               /\ state[Subject] = "Saved"
               /\ writes[Subject] = 1
               /\ tree[Subject].kind = "dir"
               /\ tree[Subject].files =
                      Put(tree0[Subject].files, ArtworkFile, thumbResp.body)
        /\ state[Subject] = "Saved" => IsResponse(thumbResp)

\* the artwork file was there before and now holds the downloaded body
C9_Witness ==
    /\ Answered
    /\ OneRecord(resp)
    /\ ~NoThumb(resp)
    /\ state[Subject] = "Saved"
    /\ HadArtwork(Subject)
    /\ OtherFile \in DOMAIN tree[Subject].files
    /\ tree[Subject].files[ArtworkFile] = thumbResp.body
    /\ tree[Subject].files[ArtworkFile] # tree0[Subject].files[ArtworkFile]

(***************************************************************************)
(* C10                                                                     *)
(***************************************************************************)
\* the names the Collector is to return
Candidates ==
    {n \in DOMAIN tree0 :
        /\ tree0[n].kind = "dir"
        /\ n[1] # "."
        /\ ArtworkFile \notin DOMAIN tree0[n].files}

Collected == rootKind = "dir" /\ pc # "start"

\* C10: the Collector returns, each once, exactly the entries of the root
\* that are directories, do not start with '.' and hold no entry named
\* like the artwork file, and it changes nothing on the filesystem.
C10_CollectorReturnsCandidates ==
    /\ [](Collected =>
            /\ {artists[k] : k \in DOMAIN artists} = Candidates
            /\ Len(artists) = Cardinality(Candidates))
    /\ [][pc = "start" => tree' = tree]_vars

\* a candidate whose name holds a '.' after its first character, next to
\* a hidden directory without artwork
C10_Witness ==
    /\ pc = "loop"
    /\ i = 1
    /\ artists = << <<"b", ".">> >>
    /\ \E n \in DOMAIN tree0 : tree0[n].kind = "dir" /\ n[1] = "." /\ ~HadArtwork(n)

(***************************************************************************)
(* C11                                                                     *)
(***************************************************************************)
\* the artists the first invocation saved are no candidates of the second
SavedAreExcluded ==
    (run = 2 /\ pc # "start") =>
        \A n \in Names : prev.state[n] = "Saved" => ~InSeq(n, artists)

\* C11: the second of two invocations in a row, with the service answering
\* as before and the filesystem changed by the first invocation only,
\* writes no file, and no artist the first one saved is a candidate of it.
C11_SecondRunWritesNothing ==
    /\ run = 2 => (\A n \in Names : writes[n] = 0 /\ Untouched(n))
    /\ SavedAreExcluded

(***************************************************************************)
(* C12                                                                     *)
(***************************************************************************)
\* C12: with a library root that is missing or no directory, the only step
\* of the run is the one in which the error of os.listdir leaves scrape():
\* no request has been sent and no file written by then, or ever.
C12_BadRootFailsFirst ==
    /\ [](rootKind # "dir" =>
            /\ pc \in {"start", "crashed"}
            /\ pc = "crashed" => crash \in {"FileNotFoundError", "NotADirectoryError"}
            /\ artists = <<>>
            /\ \A n \in Names : searchReqs[n] = 0 /\ thumbReqs[n] = 0 /\ writes[n] = 0
            /\ resp = NoResponse
            /\ thumbResp = NoResponse
            /\ tree = tree0)
    /\ [][(rootKind # "dir" /\ pc = "start") => pc' = "crashed"]_vars

\* the root is a plain file and the error has left scrape()
C12_Witness ==
    /\ rootKind = "file"
    /\ pc = "crashed"
    /\ crash = "NotADirectoryError"

(***************************************************************************)
(* C13                                                                     *)
(***************************************************************************)
\* the HTTP requests sent for an artist
RequestsFor(n) == searchReqs[n] + thumbReqs[n]

\* the call of _fetch_artwork for the artist is over
Resolved(n) ==
    \/ state[n] \in Terminal
    \/ state[n] = "Resolving" /\ pc \in {"saving", "crashed"}

NoRequestRepeated == \A n \in Names : searchReqs[n] <= 1 /\ thumbReqs[n] <= 1

\* C13 as claimed: a call of the resolver sends exactly zero or two
\* requests, and none twice.
C13_ZeroOrTwoRequests ==
    /\ NoRequestRepeated
    /\ \A n \in Names : Resolved(n) => RequestsFor(n) \in {0, 2}

\* C13 as amended: a call of the resolver sends exactly one or two
\* requests, the search and then at most one thumbnail fetch, and none
\* twice: nothing is retried after a failure.
C13_OneOrTwoRequests ==
    /\ NoRequestRepeated
    /\ \A n \in Names :
           /\ thumbReqs[n] <= searchReqs[n]
           /\ Resolved(n) => RequestsFor(n) \in {1, 2}
           /\ state[n] \in {"none", "Discovered"} => RequestsFor(n) = 0

\* one artist skipped after its search alone, one after a failed thumbnail
\* fetch
C13_Witness ==
    /\ pc = "done"
    /\ \E x, y \in Names :
           /\ state[x] = "Skipped"
           /\ RequestsFor(x) = 1
           /\ state[y] = "Skipped"
           /\ reason[y] = "network-error"
           /\ RequestsFor(y) = 2

(***************************************************************************)
(* C14                                                                     *)
(***************************************************************************)
\* the artists with an HTTP request under way
Outstanding ==
    {n \in Names : state[n] = "Resolving" /\ pc \in {"searching", "fetching"}}

\* C14: the candidates are processed one after another, in the order of
\* the list: all before the current one are finished, all after it are
\* untouched, at most one request is under way, and for an artist the
\* thumbnail fetch comes after the search and the write after the fetch.
C14_OneArtistAtATime ==
    /\ Cardinality(Outstanding) <= 1
    /\ Cardinality({n \in Names : state[n] = "Resolving"}) <= 1
    /\ \A k \in DOMAIN artists :
           /\ k < i => state[artists[k]] \in Terminal
           /\ k > i =>
                  /\ state[artists[k]] = "Discovered"
                  /\ RequestsFor(artists[k]) = 0
                  /\ writes[artists[k]] = 0
    /\ \A n \in Names :
           /\ thumbReqs[n] > 0 => searchReqs[n] > 0
           /\ writes[n] > 0 => thumbReqs[n] > 0
           /\ (state[n] = "Resolving" /\ pc = "searching") =>
                  (thumbReqs[n] = 0 /\ writes[n] = 0)
           /\ (state[n] = "Resolving" /\ pc = "fetching") => writes[n] = 0

\* the search for the second candidate is under way after the first one
\* has been saved
C14_Witness ==
    /\ pc = "searching"
    /\ i = 2
    /\ state[artists[1]] = "Saved"
    /\ writes[artists[1]] = 1
    /\ Outstanding = {artists[2]}

(***************************************************************************)
(* C15                                                                     *)
(***************************************************************************)
\* C15: a run leaves every entry of the library root in place and of its
\* kind; below an artist directory it creates or overwrites the artwork
\* file and nothing else, for candidates only, and not for a candidate it
\* skipped.
C15_OnlyArtworkOfCandidatesWritten ==
    /\ DOMAIN tree = DOMAIN tree0
    /\ \A n \in DOMAIN tree0 :
           /\ tree[n].kind = tree0[n].kind
           /\ DOMAIN tree0[n].files \subseteq DOMAIN tree[n].files
           /\ DOMAIN tree[n].files \subseteq DOMAIN tree0[n].files \cup {ArtworkFile}
           /\ \A f \in DOMAIN tree0[n].files :
                  f # ArtworkFile => tree[n].files[f] = tree0[n].files[f]
           /\ tree[n] # tree0[n] => (InSeq(n, artists) /\ writes[n] = 1)
           /\ state[n] = "Skipped" => tree[n] = tree0[n]

\* one candidate saved next to its other file, one candidate skipped
C15_Witness ==
    /\ pc = "done"
    /\ \E x, y \in DOMAIN tree0 :
           /\ state[x] = "Saved"
           /\ OtherFile \in DOMAIN tree0[x].files
           /\ tree[x].files[OtherFile] = OldBytes
           /\ tree[x].files[ArtworkFile] \in Bodies
           /\ state[y] = "Skipped"

====
